---- MODULE Spec2Model ----
(***************************************************************************)
(* TextCorrector: the correction pipeline of src/backend/spell_checker.py  *)
(* (fix_special_cases, correct_text, main), the helpers of                 *)
(* src/utils/text_utils.py and src/utils/dict_loader.py, and the           *)
(* window.checkText entry that build.py generates.                         *)
(*                                                                         *)
(* A text is a sequence of characters; a character is a one-element name   *)
(* (a TLA+ string).  The three non-ASCII characters the code is concerned  *)
(* with are named by their code points.                                    *)
(*                                                                         *)
(* spell_checker.py uses the pyspellchecker package: SpellChecker() with   *)
(* no argument loads the package's bundled English word-frequency list,    *)
(* and word_frequency.load_words(dictionary) adds one occurrence of every  *)
(* loaded word to it.  The package's operations are modelled by what they  *)
(* compute (as str.split or re.sub are); the bundled list is represented   *)
(* by small samples of common English words over the model's letters.      *)
(***************************************************************************)
EXTENDS Naturals, Sequences, FiniteSets, TLC

\* ------------------------------------------------------------ characters

LSQ == "U+2018"     \* left single quotation mark
RSQ == "U+2019"     \* right single quotation mark
KELVIN == "U+212A"  \* KELVIN SIGN: not an ASCII letter, str.lower() gives "k"

LowerLetters == {"a", "b", "c", "d", "k", "n", "o", "t"}
UpperLetters == {"C", "T"}
Whitespace == {" ", "\n"}
Punctuation == {"'", ",", "-"}    \* members of string.punctuation
Chars == LowerLetters \cup UpperLetters \cup Whitespace \cup Punctuation
           \cup {LSQ, RSQ, KELVIN, "1"}
Apostrophes == {"'", LSQ, RSQ}

\* Unicode code points: Python orders strings by them.
CodePoint(c) ==
  CASE c = "\n" -> 10  [] c = " " -> 32  [] c = "'" -> 39  [] c = "," -> 44
    [] c = "-" -> 45   [] c = "1" -> 49  [] c = "C" -> 67  [] c = "T" -> 84
    [] c = "a" -> 97   [] c = "b" -> 98  [] c = "c" -> 99  [] c = "d" -> 100
    [] c = "k" -> 107  [] c = "n" -> 110 [] c = "o" -> 111 [] c = "t" -> 116
    [] c = LSQ -> 8216 [] c = RSQ -> 8217 [] c = KELVIN -> 8490

\* str.lower() on one character.
LowerChar(c) ==
  CASE c = "C" -> "c" [] c = "T" -> "t" [] c = KELVIN -> "k" [] OTHER -> c

\* [a-zA-Z]
IsAsciiLetter(c) == c \in LowerLetters \cup UpperLetters

\* ------------------------------------------------- Python string helpers

\* Length of the longest prefix of s made of characters of cls.
RunLen(s, cls) ==
  CHOOSE n \in 0..Len(s) :
    /\ \A i \in 1..n : s[i] \in cls
    /\ n = Len(s) \/ s[n + 1] \notin cls

\* str.split(): the maximal runs of non-whitespace characters, in order.
str_split(s) ==
  LET starts == { i \in 1..Len(s) :
                    /\ s[i] \notin Whitespace
                    /\ i = 1 \/ s[i - 1] \in Whitespace }
      start(k) == CHOOSE i \in starts :
                    Cardinality({ j \in starts : j < i }) = k - 1
  IN  [k \in 1..Cardinality(starts) |->
         SubSeq(s, start(k),
                start(k) - 1
                  + RunLen(SubSeq(s, start(k), Len(s)), Chars \ Whitespace))]

\* " ".join(words)
RECURSIVE str_join(_)
str_join(ws) ==
  IF ws = <<>> THEN <<>>
  ELSE IF Len(ws) = 1 THEN ws[1]
  ELSE ws[1] \o <<" ">> \o str_join(Tail(ws))

\* str.strip()
str_strip(s) ==
  LET inner == { i \in 1..Len(s) : s[i] \notin Whitespace }
  IN  IF inner = {} THEN <<>>
      ELSE SubSeq(s, CHOOSE i \in inner : \A j \in inner : i <= j,
                     CHOOSE i \in inner : \A j \in inner : j <= i)

\* str.lower()
str_lower(s) == [i \in 1..Len(s) |-> LowerChar(s[i])]

\* re.sub(r"[cls]{2,}", RSQ, s): every maximal run of two or more
\* characters of cls becomes one RSQ.
RECURSIVE re_sub_runs(_, _)
re_sub_runs(s, cls) ==
  IF s = <<>> THEN <<>>
  ELSE LET n == RunLen(s, cls)
       IN  IF n >= 2
           THEN <<RSQ>> \o re_sub_runs(SubSeq(s, n + 1, Len(s)), cls)
           ELSE <<Head(s)>> \o re_sub_runs(Tail(s), cls)

\* re.sub(r"\s+", " ", s)
RECURSIVE re_sub_spaces(_)
re_sub_spaces(s) ==
  IF s = <<>> THEN <<>>
  ELSE LET n == RunLen(s, Whitespace)
       IN  IF n >= 1
           THEN <<" ">> \o re_sub_spaces(SubSeq(s, n + 1, Len(s)))
           ELSE <<Head(s)>> \o re_sub_spaces(Tail(s))

\* Python's order on strings.
RECURSIVE StrLess(_, _)
StrLess(u, v) ==
  IF v = <<>> THEN FALSE
  ELSE IF u = <<>> THEN TRUE
  ELSE IF Head(u) = Head(v) THEN StrLess(Tail(u), Tail(v))
  ELSE CodePoint(Head(u)) < CodePoint(Head(v))

\* ------------------------------------------------------------ text_utils

\* (mutant) the text is not lowercased.
to_lowercase_skipped(t) == t

\* (the parameters are t and ws, text and words being state variables)
to_lowercase(t) == str_lower(t)

split_words(t) ==
  str_split([i \in 1..Len(t) |->
               IF IsAsciiLetter(t[i]) \/ t[i] \in Whitespace
               THEN t[i] ELSE " "])

clean_spaces(t) == re_sub_spaces(str_strip(t))

join_words(ws) == str_join(ws)

\* ----------------------------------------------------------- dict_loader

\* (mutant) the test `if word:` is missing.
load_lines_unguarded(lines, n) ==
  { str_lower(str_strip(lines[i])) : i \in 1..n }

\* The words load_dictionary has added after reading lines 1..n of the file
\* (words.add(word) is taken as the body of `if word:`, which is how the
\* comments of the loop read; the line is written one level too shallow).
load_lines(lines, n) ==
  { str_lower(str_strip(lines[i])) : i \in 1..n } \ {<<>>}

\* ----------------------------------------------------- fix_special_cases

\* (mutant) the apostrophes are removed instead of being replaced.
RECURSIVE fix_word_dropped(_)
fix_word_dropped(word) ==
  IF word = <<>> THEN <<>>
  ELSE (IF Head(word) \in Apostrophes THEN <<>> ELSE <<Head(word)>>)
         \o fix_word_dropped(Tail(word))

fix_word(word) == re_sub_runs(re_sub_runs(word, {LSQ, RSQ}), {"'"})

\* ------------------------------------------------------- pyspellchecker

edit_distance_1(word, letters) ==
  LET n == Len(word)
      deletes == { SubSeq(word, 1, i - 1) \o SubSeq(word, i + 1, n) : i \in 1..n }
      transposes == { SubSeq(word, 1, i - 1) \o <<word[i + 1], word[i]>>
                        \o SubSeq(word, i + 2, n) : i \in 1..(n - 1) }
      replaces == { SubSeq(word, 1, i - 1) \o <<c>> \o SubSeq(word, i + 1, n) :
                      i \in 1..n, c \in letters }
      inserts == { SubSeq(word, 1, i) \o <<c>> \o SubSeq(word, i + 1, n) :
                     i \in 0..n, c \in letters }
  IN  deletes \cup transposes \cup replaces \cup inserts

\* string.punctuation holds the ASCII punctuation only.
should_check(word) == ~(Len(word) = 1 /\ word[1] \in Punctuation)

\* The bundled English word-frequency list, as far as the model's letters
\* go: a sample of common words (the counts are relative).
English ==
  (<<"a">> :> 9) @@ (<<"t", "o">> :> 8) @@ (<<"a", "t">> :> 7)
    @@ (<<"c", "a", "t">> :> 5) @@ (<<"a", "c", "t">> :> 4)

\* (mutant) load_words is never called: the bundled list alone.
load_words_skipped(loaded) == [w \in DOMAIN English |-> English[w]]

\* SpellChecker() followed by word_frequency.load_words(dictionary): a
\* Counter update, one more occurrence for every loaded word.
load_words(loaded) ==
  [w \in DOMAIN English \cup loaded |->
     (IF w \in DOMAIN English THEN English[w] ELSE 0)
       + (IF w \in loaded THEN 1 ELSE 0)]

\* WordFrequency.letters: every character of every word of the list.
letters_of(wf) == UNION { { w[i] : i \in 1..Len(w) } : w \in DOMAIN wf }

known(ws, wf) == { w \in ws : w \in DOMAIN wf /\ should_check(w) }

unknown(ws, wf) ==
  { w \in { ws[i] : i \in 1..Len(ws) } : should_check(w) /\ w \notin DOMAIN wf }

\* (mutant) the known words one and two edits away are pooled.
candidates_pooled(word, wf) ==
  LET letters == letters_of(wf)
      res == edit_distance_1(word, letters)
      d1 == known(res, wf)
      d2 == UNION { known(edit_distance_1(e1, letters), wf) :
                      e1 \in { e \in res : should_check(e) } }
  IN  IF known({word}, wf) # {} \/ ~should_check(word) THEN {word}
      ELSE d1 \cup d2

\* SpellChecker.candidates with the default distance 2; the empty set
\* stands for "no candidate" (None, or the word itself in old releases).
candidates(word, wf) ==
  LET letters == letters_of(wf)
      res == edit_distance_1(word, letters)
      d1 == known(res, wf)
      d2 == UNION { known(edit_distance_1(e1, letters), wf) :
                      e1 \in { e \in res : should_check(e) } }
  IN  IF known({word}, wf) # {} \/ ~should_check(word) THEN {word}
      ELSE IF d1 # {} THEN d1
      ELSE d2

\* sorted(S) for a set of strings.
RECURSIVE sorted(_)
sorted(S) ==
  IF S = {} THEN <<>>
  ELSE LET m == CHOOSE x \in S : \A y \in S \ {x} : StrLess(x, y)
       IN  <<m>> \o sorted(S \ {m})

\* max(seq, key = wf.__getitem__): the first element with the largest key.
py_max(seq, wf) ==
  seq[CHOOSE i \in 1..Len(seq) :
        /\ \A j \in 1..Len(seq) : wf[seq[j]] <= wf[seq[i]]
        /\ \A j \in 1..(i - 1) : wf[seq[j]] < wf[seq[i]]]

None == <<"None">>

\* (mutant) max over the candidate set as it iterates, without sorted():
\* any candidate of the largest frequency.
correction_unsorted(cands, wf) ==
  IF cands = {} THEN {None}
  ELSE { c \in cands : \A d \in cands : wf[d] <= wf[c] }

\* SpellChecker.correction, given what candidates(word) returned: the
\* values the call can return.
correction(cands, wf) ==
  IF cands = {} THEN {None} ELSE {py_max(sorted(cands), wf)}

\* ----------------------------------------------------------- dict_loader

\* (mutant) the words read so far are dropped when the read fails.
load_dictionary_cleared(file) ==
  IF file.fault # "none" THEN {} ELSE load_lines(file.lines, Len(file.lines))

\* A dictionary file: its lines as the file iterator yields them, and what
\* goes wrong on reading it: nothing, open() raising (FileNotFoundError or
\* another error), or the read raising after `good` lines.
load_dictionary(file) ==
  IF file.fault = "open" THEN {}
  ELSE IF file.fault = "read" THEN load_lines(file.lines, file.good)
  ELSE load_lines(file.lines, Len(file.lines))

\* ----------------------------------------------------- fix_special_cases

\* (mutant) the test `if fixed != word` is missing.
RECURSIVE changes_of_all(_)
changes_of_all(ws) ==
  IF ws = <<>> THEN <<>>
  ELSE << <<Head(ws), fix_word(Head(ws))>> >> \o changes_of_all(Tail(ws))

\* The changes list: one pair per word the rewriting changed, in order.
RECURSIVE changes_of(_)
changes_of(ws) ==
  IF ws = <<>> THEN <<>>
  ELSE (IF fix_word(Head(ws)) # Head(ws)
        THEN << <<Head(ws), fix_word(Head(ws))>> >> ELSE <<>>)
         \o changes_of(Tail(ws))

fix_special_cases(t) ==
  LET ws == str_split(t)
  IN  [fixed_text |-> str_join([i \in 1..Len(ws) |-> fix_word(ws[i])]),
       changes |-> changes_of(ws)]

\* ---------------------------------------------------------------- inputs

MaxSegs == 2

\* What a raw text is made of: words as typed, and a line break.
Segments ==
  { <<"c", "o", "t">>,
    <<"c", "b", "t">>,
    <<"C", "a", "t", ",", "1">>,
    <<"d", "o", "n", RSQ, RSQ, "t">>,
    <<"a", "'", RSQ, "t">>,
    <<"'", "'", RSQ>>,
    <<KELVIN>>,
    <<"b", "b">>,
    <<"d", "d", "d">>,
    <<"\n">> }

SegSeqs == UNION { [1..n -> Segments] : n \in 0..MaxSegs }

RECURSIVE join_with(_, _)
join_with(ws, sep) ==
  IF ws = <<>> THEN <<>>
  ELSE IF Len(ws) = 1 THEN ws[1]
  ELSE ws[1] \o sep \o join_with(Tail(ws), sep)

\* The raw texts: up to MaxSegs segments, one space between two.
RawTexts == { join_with(ss, <<" ">>) : ss \in SegSeqs }

NL == <<"\n">>

DictFiles ==
  { [lines |-> << <<"c", "a", "t">> \o NL, <<"c", "o", "t">> \o NL >>,
     fault |-> "none", good |-> 0],
    [lines |-> << <<" ", "C", "o", "t">> \o NL, NL, <<"c", "o", "t">> \o NL,
                  <<"C", "o", "T">> >>,
     fault |-> "none", good |-> 0],
    [lines |-> << <<"b", "a">> \o NL, <<"b", "c">> \o NL >>,
     fault |-> "none", good |-> 0],
    [lines |-> << <<"b", "a">> \o NL, <<"b", "'", "b">> \o NL >>,
     fault |-> "none", good |-> 0],
    [lines |-> << >>, fault |-> "open", good |-> 0],
    [lines |-> << <<"c", "o", "t">> \o NL, <<"b", "c">> \o NL >>,
     fault |-> "read", good |-> 1] }

\* ----------------------------------------------------------------- state

VARIABLES
  dictFile,        \* the file at dict_path
  pc,              \* where the current call stands
  mode,            \* "fresh", or how the call relates to the previous one
  raw,             \* the text the call was given
  text,            \* correct_text's local `text`
  quote_fixes,
  words,
  dictionary,
  spell,           \* the SpellChecker's word frequencies
  misspelled,
  corrected_text,
  spelling_fixes,
  candidate_sets,  \* per word looked at: what candidates(word) held
  result,          \* what the call returned
  prev             \* what the previous call returned (mode # "fresh")

vars == <<dictFile, pc, mode, raw, text, quote_fixes, words, dictionary, spell,
          misspelled, corrected_text, spelling_fixes, candidate_sets, result,
          prev>>

locals == <<text, quote_fixes, words, dictionary, spell, misspelled,
            corrected_text, spelling_fixes, candidate_sets>>

NoResult == [status |-> "none"]
NoSpell == [w \in {} |-> 0]

ClearLocals ==
  /\ text' = <<>>
  /\ quote_fixes' = <<>>
  /\ words' = <<>>
  /\ dictionary' = {}
  /\ spell' = NoSpell
  /\ misspelled' = {}
  /\ corrected_text' = <<>>
  /\ spelling_fixes' = <<>>
  /\ candidate_sets' = <<>>

Init ==
  /\ dictFile \in DictFiles
  /\ pc = "idle"
  /\ mode = "fresh"
  /\ raw = <<>>
  /\ text = <<>>
  /\ quote_fixes = <<>>
  /\ words = <<>>
  /\ dictionary = {}
  /\ spell = NoSpell
  /\ misspelled = {}
  /\ corrected_text = <<>>
  /\ spelling_fixes = <<>>
  /\ candidate_sets = <<>>
  /\ result = NoResult
  /\ prev = NoResult

\* ---------------------------------------------------------- entry points

\* The file at dict_path is replaced between two runs.
InstallDictFile ==
  /\ pc = "idle"
  /\ \E f \in DictFiles \ {dictFile} : dictFile' = f
  /\ UNCHANGED <<pc, mode, raw, locals, result, prev>>

\* spell_checker.py main(): "No input text." and exit status 1 for an empty
\* or whitespace-only text, correct_text(raw, dict_path) otherwise.
Main ==
  /\ pc = "idle"
  /\ \E t \in RawTexts :
       /\ raw' = t
       /\ IF t = <<>> \/ str_strip(t) = <<>>
          THEN /\ pc' = "exit"
               /\ result' = [status |-> "exit1"]
          ELSE /\ pc' = "fix"
               /\ result' = NoResult
  /\ UNCHANGED <<dictFile, mode, locals, prev>>

\* window.checkText(text): correct_text(text || "", "/app/en_dict.txt").
CheckText ==
  /\ pc = "idle"
  /\ \E t \in RawTexts : raw' = t
  /\ pc' = "fix"
  /\ UNCHANGED <<dictFile, mode, locals, result, prev>>

\* utils/main.py _unknown(words, dictionary): nothing at all for an empty
\* dictionary, the words not in it otherwise (a word has no apostrophe to
\* strip: split_words has removed them).
RECURSIVE utils_unknown(_, _)
utils_unknown(ws, d) ==
  IF d = {} \/ ws = <<>> THEN <<>>
  ELSE (IF Head(ws) \in d THEN <<>> ELSE <<Head(ws)>>)
         \o utils_unknown(Tail(ws), d)

\* utils/main.py main(): load the dictionary, normalize the text, report the
\* unknown words when the dictionary is not empty.
UtilsMain ==
  /\ pc = "idle"
  /\ \E t \in RawTexts :
       /\ raw' = t
       /\ dictionary' = load_dictionary(dictFile)
       /\ IF t = <<>> \/ str_strip(t) = <<>>
          THEN /\ result' = [status |-> "exit1"]
               /\ UNCHANGED <<text, words>>
          ELSE /\ words' = split_words(to_lowercase(clean_spaces(t)))
               /\ text' = join_words(words')
               /\ result' = [status |-> "utils",
                             normalized |-> text',
                             reported |-> dictionary' # {},
                             unknown |-> utils_unknown(words', dictionary')]
  /\ pc' = "exit"
  /\ UNCHANGED <<dictFile, mode, quote_fixes, spell, misspelled,
                 corrected_text, spelling_fixes, candidate_sets, prev>>

\* ----------------------------------------------------------- correct_text

\* (mutant) the comparison with the word is inverted.
accepts_inverted(word, corrected_word) ==
  corrected_word # None /\ corrected_word # <<>> /\ corrected_word = word

\* (mutant) the truthiness test is missing.
accepts_unchecked(word, corrected_word) == corrected_word # word

\* `if corrected_word and corrected_word != word`
accepts(word, corrected_word) ==
  corrected_word # None /\ corrected_word # <<>> /\ corrected_word # word

\* (mutant) "".join(corrected_text)
RECURSIVE final_text_unspaced(_)
final_text_unspaced(ws) ==
  IF ws = <<>> THEN <<>> ELSE Head(ws) \o final_text_unspaced(Tail(ws))

\* final_text = " ".join(corrected_text)
final_text(ws) == str_join(ws)

\* (mutant) spelling_fixes + quote_fixes
all_fixes_swapped(qf, sf) == sf \o qf

\* all_fixes = quote_fixes + spelling_fixes
all_fixes(qf, sf) == qf \o sf

\* (mutant) a pair is appended only if it is not in the list yet.
record_fix_once(fixes, word, corrected_word) ==
  IF \E k \in 1..Len(fixes) : fixes[k] = <<word, corrected_word>>
  THEN fixes ELSE Append(fixes, <<word, corrected_word>>)

\* spelling_fixes.append((word, corrected_word))
record_fix(fixes, word, corrected_word) ==
  Append(fixes, <<word, corrected_word>>)

\* (mutant) every misspelled occurrence is counted.
mistake_count_per_occurrence(ws, ms) ==
  Cardinality({ i \in 1..Len(ws) : ws[i] \in ms })

\* len(misspelled)
mistake_count(ws, ms) == Cardinality(ms)

\* Step 1: text, quote_fixes = fix_special_cases(text)
FixSpecialCases ==
  /\ pc = "fix"
  /\ text' = fix_special_cases(raw).fixed_text
  /\ quote_fixes' = fix_special_cases(raw).changes
  /\ pc' = "normalize"
  /\ UNCHANGED <<dictFile, mode, raw, words, dictionary, spell, misspelled,
                 corrected_text, spelling_fixes, candidate_sets,
                 result, prev>>

\* Step 2: clean_spaces, to_lowercase, split_words
Normalize ==
  /\ pc = "normalize"
  /\ text' = to_lowercase(clean_spaces(text))
  /\ words' = split_words(text')
  /\ pc' = "load"
  /\ UNCHANGED <<dictFile, mode, raw, quote_fixes, dictionary, spell,
                 misspelled, corrected_text, spelling_fixes, candidate_sets,
                 result, prev>>

\* Step 3: dictionary = load_dictionary(dict_path)
\* (mutant) the dictionary of the first call is kept for the later ones.
LoadDictionary_once ==
  /\ pc = "load"
  /\ dictionary' = IF mode = "later" THEN dictionary
                   ELSE load_dictionary(dictFile)
  /\ pc' = "spell"
  /\ UNCHANGED <<dictFile, mode, raw, text, quote_fixes, words, spell,
                 misspelled, corrected_text, spelling_fixes, candidate_sets,
                 result, prev>>

LoadDictionary ==
  /\ pc = "load"
  /\ dictionary' = load_dictionary(dictFile)
  /\ pc' = "spell"
  /\ UNCHANGED <<dictFile, mode, raw, text, quote_fixes, words, spell,
                 misspelled, corrected_text, spelling_fixes, candidate_sets,
                 result, prev>>

\* Step 4: SpellChecker(), load_words(dictionary), unknown(words)
SpellSetup ==
  /\ pc = "spell"
  /\ spell' = load_words(dictionary)
  /\ misspelled' = unknown(words, spell')
  /\ pc' = "loop"
  /\ UNCHANGED <<dictFile, mode, raw, text, quote_fixes, words, dictionary,
                 corrected_text, spelling_fixes, candidate_sets,
                 result, prev>>

\* One iteration of `for word in words`.
CorrectWord ==
  /\ pc = "loop"
  /\ Len(corrected_text) < Len(words)
  /\ LET word == words[Len(corrected_text) + 1]
         cands == candidates(word, spell)
     IN  IF word \in misspelled
         THEN /\ candidate_sets' = Append(candidate_sets, cands)
              /\ \E corrected_word \in correction(cands, spell) :
                   IF accepts(word, corrected_word)
                   THEN /\ spelling_fixes' =
                             record_fix(spelling_fixes, word, corrected_word)
                        /\ corrected_text' =
                             Append(corrected_text, corrected_word)
                   ELSE /\ corrected_text' = Append(corrected_text, word)
                        /\ UNCHANGED spelling_fixes
         ELSE /\ corrected_text' = Append(corrected_text, word)
              /\ candidate_sets' = Append(candidate_sets, {word})
              /\ UNCHANGED spelling_fixes
  /\ UNCHANGED <<dictFile, pc, mode, raw, text, quote_fixes, words, dictionary,
                 spell, misspelled, result, prev>>

\* The return statement, after the loop.
Return ==
  /\ pc = "loop"
  /\ Len(corrected_text) = Len(words)
  /\ result' = [status |-> "returned",
                corrected_text |-> final_text(corrected_text),
                mistake_count |-> mistake_count(words, misspelled),
                misspelled |-> misspelled,
                all_fixes |-> all_fixes(quote_fixes, spelling_fixes)]
  /\ pc' = "done"
  /\ UNCHANGED <<dictFile, mode, raw, locals, prev>>

\* -------------------------------------------------------- repeated calls

\* The same text is given again, the dictionary file untouched.
Again ==
  /\ pc = "done"
  /\ mode = "fresh"
  /\ mode' = "again"
  /\ prev' = result
  /\ result' = NoResult
  /\ pc' = "fix"
  /\ ClearLocals
  /\ UNCHANGED <<dictFile, raw>>

\* The corrected text is given back to correct_text.
Recheck ==
  /\ pc = "done"
  /\ mode = "fresh"
  /\ mode' = "recheck"
  /\ prev' = result
  /\ raw' = result.corrected_text
  /\ result' = NoResult
  /\ pc' = "fix"
  /\ ClearLocals
  /\ UNCHANGED dictFile

\* The same text is given again after the file at dict_path has been
\* removed.  (dictionary keeps the value the previous call left until step
\* 3 assigns it; nothing reads it before.)
Later ==
  /\ pc = "done"
  /\ mode = "fresh"
  /\ mode' = "later"
  /\ \E f \in DictFiles :
       /\ dictFile.fault # "open"
       /\ f.fault = "open"
       /\ dictFile' = f
  /\ prev' = result
  /\ result' = NoResult
  /\ pc' = "fix"
  /\ text' = <<>>
  /\ quote_fixes' = <<>>
  /\ words' = <<>>
  /\ spell' = NoSpell
  /\ misspelled' = {}
  /\ corrected_text' = <<>>
  /\ spelling_fixes' = <<>>
  /\ candidate_sets' = <<>>
  /\ UNCHANGED <<raw, dictionary>>

\* The run is over; the next one starts from scratch.
Finish ==
  /\ pc \in {"done", "exit"}
  /\ pc' = "idle"
  /\ mode' = "fresh"
  /\ raw' = <<>>
  /\ result' = NoResult
  /\ prev' = NoResult
  /\ ClearLocals
  /\ UNCHANGED dictFile

Next ==
  \/ InstallDictFile
  \/ Main
  \/ CheckText
  \/ UtilsMain
  \/ FixSpecialCases
  \/ Normalize
  \/ LoadDictionary
  \/ SpellSetup
  \/ CorrectWord
  \/ Return
  \/ Again
  \/ Recheck
  \/ Later
  \/ Finish

Spec == Init /\ [][Next]_vars

\* ------------------------------------------------------------ properties

RangeOf(seq) == { seq[i] : i \in 1..Len(seq) }

\* d is one single-character edit (insert, delete, substitute, adjacent
\* transpose) away from w.
OneEdit(w, d) == d # w /\ d \in edit_distance_1(w, Chars)

\* d is within two single-character edits of w: one edit away, or one
\* edit from each of them leads to the same string.
WithinTwoEdits(w, d) ==
  \/ d \in edit_distance_1(w, Chars)
  \/ edit_distance_1(w, Chars) \cap edit_distance_1(d, Chars) # {}

\* The words the checker knows: the bundled list and the loaded words.
Vocabulary == known(DOMAIN spell, spell)

Returned == pc = "done"

\* C1: a single-word text whose word is in the loaded dictionary comes back
\* unchanged, with mistake_count 0, nothing misspelled and no spelling fix
\* (no fix at all when the text is the bare word).
C1_KnownWordUnchanged ==
  (Returned /\ Len(words) = 1 /\ words[1] \in dictionary) =>
     /\ result.corrected_text = words[1]
     /\ result.mistake_count = 0
     /\ result.misspelled = {}
     /\ spelling_fixes = <<>>
     /\ raw = words[1] => result.all_fixes = <<>>

\* A dictionary word that the bundled list does not hold was given.
C1_Witness ==
  /\ Returned
  /\ raw = <<"c", "o", "t">>
  /\ raw \in dictionary
  /\ raw \notin DOMAIN English
  /\ result.corrected_text = raw

\* C2 as stated: w not in the loaded dictionary D, exactly one word d of D
\* one edit away from w: the text "w" is corrected to d, w is misspelled
\* and (w, d) is among the fixes.
C2_AsStated ==
  (Returned /\ Len(words) = 1 /\ words[1] \notin dictionary) =>
     \A d \in dictionary :
        { e \in dictionary : OneEdit(words[1], e) } = {d} =>
           /\ result.corrected_text = d
           /\ words[1] \in result.misspelled
           /\ <<words[1], d>> \in RangeOf(result.all_fixes)

\* C2 amended: w unknown to the checker (in neither the bundled list nor
\* D), exactly one word d the checker knows one edit away from w: the text
\* "w" is corrected to d, w is misspelled and (w, d) is among the fixes.
C2_UniqueNeighbourChosen ==
  (Returned /\ Len(words) = 1 /\ words[1] \in misspelled) =>
     \A d \in Vocabulary :
        { e \in Vocabulary : OneEdit(words[1], e) } = {d} =>
           /\ result.corrected_text = d
           /\ words[1] \in result.misspelled
           /\ <<words[1], d>> \in RangeOf(result.all_fixes)

C2_Witness ==
  /\ Returned
  /\ words = << <<"c", "b", "t">> >>
  /\ { e \in Vocabulary : OneEdit(words[1], e) } = { <<"c", "a", "t">> }
  /\ result.corrected_text = <<"c", "a", "t">>

\* C3 as stated: correct_text never returns a result for an empty or
\* whitespace-only text.
C3_EmptyInputRejected == ~(Returned /\ str_strip(raw) = <<>>)

\* C4: where an unknown word has candidates, the word emitted is a
\* candidate of the highest frequency and, among those, the smallest in
\* string order; the same call made again returns the same result.
C4_RankedChoice ==
  /\ pc \in {"loop", "done"} =>
       \A i \in 1..Len(corrected_text) :
          (words[i] \in misspelled /\ candidate_sets[i] # {}) =>
             /\ corrected_text[i] \in candidate_sets[i]
             /\ \A c \in candidate_sets[i] :
                   \/ spell[c] < spell[corrected_text[i]]
                   \/ /\ spell[c] = spell[corrected_text[i]]
                      /\ ~StrLess(c, corrected_text[i])
  /\ (Returned /\ mode = "again") => result = prev

\* Two candidates of the same (largest) frequency, met on a repeated call.
C4_Witness ==
  /\ Returned
  /\ mode = "again"
  /\ \E i \in 1..Len(words) :
        /\ words[i] \in misspelled
        /\ \E c \in candidate_sets[i] :
              /\ c # corrected_text[i]
              /\ spell[c] = spell[corrected_text[i]]

LettersAndSpaces(t) == \A i \in 1..Len(t) : t[i] \in LowerLetters \cup {" "}

Collapsed(seg) == re_sub_runs(seg, Apostrophes)

RECURSIVE CollapseFixes(_)
CollapseFixes(segs) ==
  IF segs = <<>> THEN <<>>
  ELSE (IF Collapsed(Head(segs)) # Head(segs)
        THEN << <<Head(segs), Collapsed(Head(segs))>> >> ELSE <<>>)
       \o CollapseFixes(Tail(segs))

\* C6 as stated: whatever the dictionary, the fixes start with one pair
\* (segment, collapsed segment) for each whitespace-delimited segment of
\* the raw text that collapsing a run of two or more apostrophe-like
\* characters changes, in segment order, and none for the others.
C6_AsStated ==
  Returned =>
     LET fixes == CollapseFixes(str_split(raw)) IN
       /\ quote_fixes = fixes
       /\ Len(result.all_fixes) >= Len(fixes)
       /\ SubSeq(result.all_fixes, 1, Len(fixes)) = fixes

\* The maximal runs of ASCII letters of a text, in order.
LetterRuns(t) ==
  str_split([i \in 1..Len(t) |-> IF IsAsciiLetter(t[i]) THEN t[i] ELSE " "])

\* Lowercasing of the ASCII letters alone.
AsciiLower(w) ==
  [i \in 1..Len(w) |-> IF w[i] \in UpperLetters THEN LowerChar(w[i]) ELSE w[i]]

\* C7 as stated: when the lowercased maximal runs of ASCII letters of the
\* raw text are all in the dictionary, corrected_text is those runs joined
\* by single spaces and mistake_count is 0.
C7_AsStated ==
  LET runs == [i \in 1..Len(LetterRuns(raw)) |-> AsciiLower(LetterRuns(raw)[i])]
  IN (Returned /\ RangeOf(runs) \subseteq dictionary) =>
        /\ result.corrected_text = str_join(runs)
        /\ result.mistake_count = 0

\* C7 amended: the same of the maximal runs of ASCII letters of the
\* lowercased text (str.lower turns some non-ASCII characters into ASCII
\* letters).
C7_LowercasedLetterRuns ==
  LET runs == LetterRuns(str_lower(raw))
  IN (Returned /\ RangeOf(runs) \subseteq dictionary) =>
        /\ result.corrected_text = str_join(runs)
        /\ result.mistake_count = 0

\* Capitals, punctuation, a digit and several words, all in the dictionary.
C7_Witness ==
  /\ Returned
  /\ raw = <<"C", "a", "t", ",", "1", " ", "c", "o", "t">>
  /\ RangeOf(words) \subseteq dictionary
  /\ result.corrected_text = <<"c", "a", "t", " ", "c", "o", "t">>
  /\ result.mistake_count = 0

C9_AsStated ==
  Returned =>
     /\ result.misspelled = RangeOf(words) \ dictionary
     /\ result.mistake_count = Cardinality(result.misspelled)

\* C9 amended: misspelled is the set of distinct tokens that are in neither
\* the loaded dictionary nor the bundled list, and mistake_count is its
\* size, however often a token occurs.
C9_MisspelledAreUnknownTokens ==
  Returned =>
     /\ result.misspelled =
          { w \in RangeOf(words) : w \notin DOMAIN English \cup dictionary }
     /\ result.mistake_count = Cardinality(result.misspelled)

\* An unknown token occurs twice and is counted once.
C9_Witness ==
  /\ Returned
  /\ Len(words) = 2
  /\ words[1] = words[2]
  /\ words[1] \in result.misspelled
  /\ result.mistake_count = 1

\* C10 as stated: a token that is not in the loaded dictionary and has no
\* dictionary word within two edits is emitted unchanged, is the original
\* of no fix and is in misspelled.
C10_AsStated ==
  Returned =>
     \A i \in 1..Len(words) :
        (/\ words[i] \notin dictionary
         /\ \A d \in dictionary : ~WithinTwoEdits(words[i], d)) =>
           /\ corrected_text[i] = words[i]
           /\ \A k \in 1..Len(spelling_fixes) : spelling_fixes[k][1] # words[i]
           /\ words[i] \in result.misspelled

\* C10 amended: a token unknown to the checker (in neither the bundled
\* list nor the loaded dictionary) for which it finds no candidate is
\* emitted unchanged, is the original of no fix and is in misspelled.
C10_NoCandidatePassesThrough ==
  Returned =>
     \A i \in 1..Len(words) :
        (words[i] \notin DOMAIN spell /\ candidate_sets[i] = {}) =>
           /\ corrected_text[i] = words[i]
           /\ \A k \in 1..Len(spelling_fixes) : spelling_fixes[k][1] # words[i]
           /\ words[i] \in result.misspelled

\* A token without candidates next to one that was corrected.
C10_Witness ==
  /\ Returned
  /\ \E i \in 1..Len(words) :
        /\ words[i] \notin DOMAIN spell
        /\ candidate_sets[i] = {}
        /\ corrected_text[i] = words[i]
  /\ spelling_fixes # <<>>

\* The originals of the fixes are found in seq, at increasing positions.
RECURSIVE OriginalsInOrder(_, _)
OriginalsInOrder(fixes, seq) ==
  IF fixes = <<>> THEN TRUE
  ELSE IF seq = <<>> THEN FALSE
  ELSE IF Head(fixes)[1] = Head(seq)
       THEN OriginalsInOrder(Tail(fixes), Tail(seq))
       ELSE OriginalsInOrder(fixes, Tail(seq))

HasApostrophe(w) == \E i \in 1..Len(w) : w[i] \in Apostrophes

\* C11: all_fixes is the quote fixes followed by the spelling fixes: the
\* pairs whose original is a segment with apostrophes come first, in
\* segment order, and the pairs whose original is a token follow, in token
\* order.
C11_QuoteFixesFirst ==
  Returned =>
     LET fixes == result.all_fixes
         n == Len(quote_fixes)
     IN  /\ Len(fixes) = n + Len(spelling_fixes)
         /\ SubSeq(fixes, 1, n) = quote_fixes
         /\ SubSeq(fixes, n + 1, Len(fixes)) = spelling_fixes
         /\ \A k \in 1..Len(fixes) : HasApostrophe(fixes[k][1]) <=> k <= n
         /\ OriginalsInOrder(SubSeq(fixes, 1, n), str_split(raw))
         /\ OriginalsInOrder(SubSeq(fixes, n + 1, Len(fixes)), words)

\* A call that repaired a quote run and corrected a word.
C11_Witness ==
  /\ Returned
  /\ quote_fixes # <<>>
  /\ spelling_fixes # <<>>
  /\ Len(result.all_fixes) >= 2

\* C12: in every recorded fix the replacement differs from the original.
C12_ReplacementDiffers ==
  Returned =>
     \A k \in 1..Len(result.all_fixes) :
        result.all_fixes[k][1] # result.all_fixes[k][2]

\* A fix was recorded while another misspelled token was emitted as it
\* was, without a fix.
C12_Witness ==
  /\ Returned
  /\ result.all_fixes # <<>>
  /\ \E i \in 1..Len(words) :
        /\ words[i] \in misspelled
        /\ corrected_text[i] = words[i]

\* C13 as stated: fix_special_cases turns every run of two or more
\* apostrophe-like characters, of whatever mixture, into one right single
\* quote: its text has no two adjacent apostrophe-like characters, and
\* applying it to that text changes nothing and records nothing.
C13_AsStated ==
  pc = "normalize" =>
     LET segs == str_split(raw) IN
       /\ text = str_join([i \in 1..Len(segs) |-> Collapsed(segs[i])])
       /\ \A i \in 1..(Len(text) - 1) :
             ~(text[i] \in Apostrophes /\ text[i + 1] \in Apostrophes)
       /\ fix_special_cases(text) = [fixed_text |-> text, changes |-> <<>>]

\* C14: where a word the checker knows is one edit away from an unknown
\* token, every candidate is one edit away and so is the replacement,
\* whatever the frequency of the known words two edits away; a candidate
\* two edits away means that no known word is one edit away.  (Stated of
\* the token the loop has just handled: what is recorded for a token does
\* not change afterwards.)
C14_NearestFirst ==
  (pc = "loop" /\ corrected_text # <<>>) =>
     LET i == Len(corrected_text) IN
        words[i] \in misspelled =>
           LET near == Vocabulary \cap
                         (edit_distance_1(words[i], Chars) \ {words[i]})
           IN  /\ near # {} =>
                     /\ candidate_sets[i] = near
                     /\ corrected_text[i] \in near
               /\ candidate_sets[i] # near =>
                     /\ near = {}
                     /\ \A c \in candidate_sets[i] :
                           WithinTwoEdits(words[i], c)

\* A word of the loaded dictionary one edit away was chosen although a
\* known word two edits away is more frequent.
C14_Witness ==
  /\ Returned
  /\ \E i \in 1..Len(words) :
        /\ words[i] \in misspelled
        /\ corrected_text[i] \in dictionary
        /\ OneEdit(words[i], corrected_text[i])
        /\ \E v \in Vocabulary :
              /\ ~OneEdit(words[i], v)
              /\ WithinTwoEdits(words[i], v)
              /\ spell[v] > spell[corrected_text[i]]

C16_AsStated == (Returned /\ mode = "later") => result = prev

\* C16 amended: every call loads the dictionary itself, from the file as it
\* is at that call, and does not modify it afterwards: from step 4 to the
\* return the dictionary is what load_dictionary gives for the file, in
\* the first call and in every later one.
C16_LoadedOnEveryCall ==
  /\ pc \in {"spell", "loop", "done"} => dictionary = load_dictionary(dictFile)
  /\ (Returned /\ mode = "later") =>
        result.misspelled =
          { w \in RangeOf(words) :
              w \notin DOMAIN English \cup load_dictionary(dictFile) }

\* A later call with the same text returned something else, the file having
\* been removed in between.
C16_Witness ==
  /\ Returned
  /\ mode = "later"
  /\ result # prev
  /\ dictionary = load_dictionary(dictFile)

\* C17 as stated: the tokens are those of the raw text normalised without
\* quote repair, and no apostrophe-like character is in corrected_text.
C17_AsStated ==
  Returned =>
     /\ words = split_words(to_lowercase(clean_spaces(raw)))
     /\ ~HasApostrophe(result.corrected_text)

\* C17 amended: the tokens, and with them misspelled and mistake_count, are
\* those of the raw text normalised without quote repair; no token has an
\* apostrophe-like character, and corrected_text has one only inside a
\* replacement (a word the checker knows).
C17_QuoteRepairKeepsTokens ==
  Returned =>
     LET tokens == split_words(to_lowercase(clean_spaces(raw))) IN
       /\ words = tokens
       /\ result.misspelled = unknown(tokens, spell)
       /\ result.mistake_count = Cardinality(unknown(tokens, spell))
       /\ \A i \in 1..Len(tokens) :
             /\ ~HasApostrophe(tokens[i])
             /\ HasApostrophe(corrected_text[i]) =>
                   /\ corrected_text[i] # tokens[i]
                   /\ corrected_text[i] \in DOMAIN spell

\* Quote repair rewrote a segment that holds two tokens.
C17_Witness ==
  /\ Returned
  /\ quote_fixes # <<>>
  /\ fix_special_cases(raw).fixed_text # raw
  /\ Len(words) >= 2
  /\ ~HasApostrophe(result.corrected_text)

\* One pair (input token, emitted token) for each position where the two
\* differ, in order.
RECURSIVE PositionFixes(_, _)
PositionFixes(ins, outs) ==
  IF ins = <<>> THEN <<>>
  ELSE (IF Head(ins) # Head(outs) THEN << <<Head(ins), Head(outs)>> >>
        ELSE <<>>)
         \o PositionFixes(Tail(ins), Tail(outs))

\* C18: the spelling part of all_fixes holds one pair (token, emitted
\* token) for each position where the emitted token differs from the
\* token, in token order, so a token corrected k times gives k equal pairs
\* and counts once in mistake_count.
C18_FixPerOccurrence ==
  Returned =>
     LET fixes == result.all_fixes
         n == Len(quote_fixes)
     IN  /\ SubSeq(fixes, n + 1, Len(fixes)) = PositionFixes(words, corrected_text)
         /\ result.corrected_text = str_join(corrected_text)
         /\ \A w \in RangeOf(words) :
               Cardinality({ k \in (n + 1)..Len(fixes) : fixes[k][1] = w }) =
                 Cardinality({ i \in 1..Len(words) :
                                words[i] = w /\ corrected_text[i] # w })
         /\ result.mistake_count =
               Cardinality({ w \in RangeOf(words) : w \in misspelled })

\* One token corrected at two positions: two equal pairs, one mistake.
C18_Witness ==
  /\ Returned
  /\ Len(words) = 2
  /\ words[1] = words[2]
  /\ Len(spelling_fixes) = 2
  /\ spelling_fixes[1] = spelling_fixes[2]
  /\ result.mistake_count = 1
  /\ Len(result.all_fixes) > result.mistake_count

====
